---------------------------- MODULE Spec2Model ----------------------------
(***************************************************************************)
(* Bangla PDF question answering (app.py and app_deploy.py).               *)
(*                                                                         *)
(* Every browser session runs the script top to bottom in its own thread;  *)
(* each interaction reruns it.  The sessions share the working directory:  *)
(* the PDF at data/bangla_document.pdf and the pickle file under cache/.   *)
(* A step of the model is one file-system operation or one external call   *)
(* of one script run.                                                      *)
(*                                                                         *)
(* Text is kept at paragraph granularity: the OCR text of page p of        *)
(* document d is the token <<d, p>>, of PageLen(d, p) characters, holding  *)
(* no blank line of its own.                                               *)
(***************************************************************************)
EXTENDS Integers, Sequences, FiniteSets, TLC

\* ------------------------------------------------------------- bounds
\* script runs (first runs and reruns) of all sessions together
MaxRuns == 3
\* sample documents 1..MaxDoc
MaxDoc == 4
\* embedding vectors are the integers 0..MaxVec
MaxVec == 1

\* ---------------------------------------------------- program constants
ChunkSize == 500
ChunkOverlap == 100
\* len('\n\n'), the first separator
SepLen == 2
\* k of index.search
TopK == 3

\* two browser sessions run the script
Sessions == {"s1", "s2"}
Docs == 1..MaxDoc
Variants == {"app", "deploy"}

\* The sample documents, as the lengths of their pages' OCR text:
\* a blank page, one paragraph, a short page between two long ones,
\* and d-1 long pages.
DocPages(d) ==
    CASE d = 1 -> <<0>>
      [] d = 2 -> <<300>>
      [] d = 3 -> <<300, 90, 300>>
      [] OTHER -> [i \in 1..(d - 1) |-> 300]

PageLen(d, p) == DocPages(d)[p]

\* convert_from_path: the page images of the PDF, in page order
PageImages(d) == [p \in 1..Len(DocPages(d)) |-> <<d, p>>]

\* the piece after the last separator of "p1\n\np2\n\n"
EmptySplit == <<0, 0>>
SplitLen(t) == IF t[1] = 0 THEN 0 ELSE PageLen(t[1], t[2])

\* ------------------------------------------------ RecursiveCharacterTextSplitter
\* text.split('\n\n'): every page adds its text and '\n\n', so a non-empty
\* text ends with an empty piece; the empty text has no separator and
\* splits into no pieces.
SplitOnSeparator(text) == IF text = <<>> THEN <<>> ELSE Append(text, EmptySplit)

RECURSIVE StripLeft(_)
StripLeft(s) ==
    IF s = <<>> THEN <<>>
    ELSE IF SplitLen(s[1]) = 0 THEN StripLeft(Tail(s)) ELSE s

RECURSIVE StripRight(_)
StripRight(s) ==
    IF s = <<>> THEN <<>>
    ELSE IF SplitLen(s[Len(s)]) = 0 THEN StripRight(SubSeq(s, 1, Len(s) - 1)) ELSE s

\* _join_docs: join with the separator and strip; <<>> stands for None
JoinDocs(cur) == StripRight(StripLeft(cur))

SepIf(b) == IF b THEN SepLen ELSE 0

\* the while loop of _merge_splits: drop pieces from the front of the
\* current chunk until what is left fits the overlap and the next piece
RECURSIVE PopFront(_, _, _)
PopFront(cur, total, len) ==
    IF total > ChunkOverlap
       \/ (total + len + SepIf(Len(cur) > 0) > ChunkSize /\ total > 0)
    THEN PopFront(Tail(cur), total - (SplitLen(cur[1]) + SepIf(Len(cur) > 1)), len)
    ELSE <<cur, total>>

RECURSIVE MergeFrom(_, _, _, _, _)
MergeFrom(splits, i, docs, cur, total) ==
    IF i > Len(splits)
    THEN IF JoinDocs(cur) = <<>> THEN docs ELSE Append(docs, JoinDocs(cur))
    ELSE LET len == SplitLen(splits[i])
             over == total + len + SepIf(Len(cur) > 0) > ChunkSize
             emit == over /\ Len(cur) > 0
             docs1 == IF emit /\ JoinDocs(cur) # <<>>
                      THEN Append(docs, JoinDocs(cur)) ELSE docs
             kept == IF emit THEN PopFront(cur, total, len) ELSE <<cur, total>>
             cur1 == Append(kept[1], splits[i])
             total1 == kept[2] + len + SepIf(Len(cur1) > 1)
         IN MergeFrom(splits, i + 1, docs1, cur1, total1)

MergeSplits(splits) == MergeFrom(splits, 1, <<>>, <<>>, 0)

\* split_text: every piece is shorter than chunk_size, so all are merged
SplitText(text) == MergeSplits(SplitOnSeparator(text))

\* ----------------------------------------------------------- embedding
\* model.encode of one text: a fixed function of the text
EmbedText(c) == (c[1][2] + Len(c)) % (MaxVec + 1)

\* model.encode(chunks): one vector per chunk, in chunk order
Encode(chunks) == [i \in 1..Len(chunks) |-> EmbedText(chunks[i])]

\* index.add(embeddings): appended in the order given
IndexAdd(index, embeddings) == index \o embeddings

\* squared Euclidean distance
Dist(v, q) == (v - q) * (v - q)

\* index.search(q, k) of IndexFlatL2: the labels (0-based) of the k nearest
\* vectors, nearest first, equal distances in label order; past the last
\* vector the label is -1
Closer(index, q, j, i) ==
    \/ Dist(index[j], q) < Dist(index[i], q)
    \/ Dist(index[j], q) = Dist(index[i], q) /\ j < i

Rank(index, q, i) == Cardinality({j \in 1..Len(index) : Closer(index, q, j, i)})

Search(index, q, k) ==
    [n \in 1..k |->
        IF n > Len(index) THEN -1
        ELSE (CHOOSE i \in 1..Len(index) : Rank(index, q, i) = n - 1) - 1]

\* Python's list[i]: a negative i counts from the end
InRange(list, i) == -Len(list) <= i /\ i < Len(list)
PyItem(list, i) == IF i >= 0 THEN list[i + 1] ELSE list[Len(list) + i + 1]

\* ------------------------------------------------------------ the files
Absent == [kind |-> "absent", chunks |-> <<>>, index |-> <<>>]
\* exists but does not unpickle: opened for writing and not yet (or never) filled
Invalid == [kind |-> "invalid", chunks |-> <<>>, index |-> <<>>]
Pickled(c, ix) == [kind |-> "pair", chunks |-> c, index |-> ix]
NoResult == [kind |-> "none", chunks |-> <<>>, index |-> <<>>]

NoPdf == 0

VARIABLES
    variant,        \* which script is deployed: app.py or app_deploy.py
    pdf,            \* content of data/bangla_document.pdf: NoPdf or a document
    cache,          \* content of cache/bangla_document.pdf.pkl
    pc,             \* position of each session's script run
    runs,           \* script runs started so far
    images,         \* extract_text_from_pdf: images
    text,           \* process_pdf: text
    chunks,         \* process_pdf: chunks
    index,          \* process_pdf: index
    result,         \* main: (chunks, index) as returned by process_pdf
    question_embedding, \* main: the question's vector, -1 before it is set
    I,              \* main: labels returned by index.search, best first
    context,        \* main: the chunks joined into the prompt, in order
    answer,         \* main: "none" (not asked), "text" or "None"
    reported,       \* what the run showed with st.error / st.warning
    did,            \* history: the steps each session's current run has taken
    call,           \* history: what held when the run called process_pdf
    firstPair,      \* history: the pair the first completed process_pdf returned
    corruptSeen     \* history: some process_pdf has failed to unpickle the file

files == <<variant, pdf, cache>>
locals == <<text, chunks, index, result>>
query == <<question_embedding, I, context, answer>>
history == <<did, call, firstPair, corruptSeen>>
vars == <<variant, pdf, cache, pc, runs, images, text,
          chunks, index, result, question_embedding, I, context, answer,
          reported, did, call, firstPair, corruptSeen>>

NoCall == [late |-> FALSE, afterCorrupt |-> FALSE, doc |-> NoPdf]

Init ==
    /\ variant \in Variants
    /\ pdf \in {NoPdf} \cup Docs
    /\ cache = Absent
    /\ pc = [r \in Sessions |-> "idle"]
    /\ runs = 0
    /\ images = [r \in Sessions |-> <<>>]
    /\ text = [r \in Sessions |-> <<>>]
    /\ chunks = [r \in Sessions |-> <<>>]
    /\ index = [r \in Sessions |-> <<>>]
    /\ result = [r \in Sessions |-> NoResult]
    /\ question_embedding = [r \in Sessions |-> -1]
    /\ I = [r \in Sessions |-> <<>>]
    /\ context = [r \in Sessions |-> <<>>]
    /\ answer = [r \in Sessions |-> "none"]
    /\ reported = [r \in Sessions |-> "none"]
    /\ did = [r \in Sessions |-> {}]
    /\ call = [r \in Sessions |-> NoCall]
    /\ firstPair = NoResult
    /\ corruptSeen = FALSE

Ended(r) == pc[r] \in {"idle", "done", "stopped", "crashed"}

\* the variables of a script run are fresh at its start and gone at its end
NoLocals(r) ==
    /\ images' = [images EXCEPT ![r] = <<>>]
    /\ text' = [text EXCEPT ![r] = <<>>]
    /\ chunks' = [chunks EXCEPT ![r] = <<>>]
    /\ index' = [index EXCEPT ![r] = <<>>]
    /\ result' = [result EXCEPT ![r] = NoResult]
    /\ question_embedding' = [question_embedding EXCEPT ![r] = -1]
    /\ I' = [I EXCEPT ![r] = <<>>]
    /\ context' = [context EXCEPT ![r] = <<>>]
    /\ answer' = [answer EXCEPT ![r] = "none"]

\* the run goes on to the query interface without the PDF being there
MainIgnoresMissingPdf(r) ==
    /\ pc' = [pc EXCEPT ![r] = IF pdf' = NoPdf THEN "ready" ELSE "check"]
    /\ reported' = [reported EXCEPT ![r] = IF pdf' = NoPdf THEN "no_pdf" ELSE "none"]
    /\ call' = [call EXCEPT ![r] = [late |-> firstPair.kind = "pair",
                                    afterCorrupt |-> corruptSeen,
                                    doc |-> pdf']]

\* if not os.path.exists(PDF_PATH): warning and st.stop();
\* otherwise process_pdf(PDF_PATH, embedding_model) is called
MainChecksPdf(r) ==
    IF pdf' = NoPdf
    THEN /\ pc' = [pc EXCEPT ![r] = "stopped"]
         /\ reported' = [reported EXCEPT ![r] = "no_pdf"]
         /\ call' = [call EXCEPT ![r] = NoCall]
    ELSE /\ pc' = [pc EXCEPT ![r] = "check"]
         /\ reported' = [reported EXCEPT ![r] = "none"]
         /\ call' = [call EXCEPT ![r] = [late |-> firstPair.kind = "pair",
                                         afterCorrupt |-> corruptSeen,
                                         doc |-> pdf']]

\* A session runs the script from the top.  In app_deploy.py the file
\* uploader may hold a PDF, which the run writes to the fixed PDF_PATH.
Start(r) ==
    /\ Ended(r)
    /\ runs < MaxRuns
    /\ runs' = runs + 1
    /\ \/ pdf' = pdf
       \/ /\ variant = "deploy"
          /\ \E d \in Docs : pdf' = d
    /\ NoLocals(r)
    /\ did' = [did EXCEPT ![r] = {}]
    /\ MainChecksPdf(r)
    /\ UNCHANGED <<variant, cache, firstPair, corruptSeen>>

\* a session that finds no entry while another is computing it waits for
\* that one's entry instead of computing its own
CheckCacheWaitsForWriter(r) ==
    /\ pc[r] = "check"
    /\ \/ /\ cache.kind # "absent"
          /\ pc' = [pc EXCEPT ![r] = "load"]
          /\ UNCHANGED did
       \/ /\ cache.kind = "absent"
          /\ did' = [did EXCEPT ![r] = @ \cup {"miss"}]
          /\ pc' = [pc EXCEPT ![r] =
                      IF \E s \in Sessions \ {r} : "miss" \in did[s] /\ ~Ended(s)
                      THEN "load" ELSE "raster"]
    /\ UNCHANGED <<files, runs, images, locals, query, reported, call,
                   firstPair, corruptSeen>>

\* process_pdf: if os.path.exists(cache_path)
CheckCache(r) ==
    /\ pc[r] = "check"
    /\ \/ /\ cache.kind # "absent"
          /\ pc' = [pc EXCEPT ![r] = "load"]
          /\ UNCHANGED did
       \/ /\ cache.kind = "absent"
          /\ did' = [did EXCEPT ![r] = @ \cup {"miss"}]
          /\ pc' = [pc EXCEPT ![r] = "raster"]
    /\ UNCHANGED <<files, runs, images, locals, query, reported, call,
                   firstPair, corruptSeen>>

\* process_pdf returns pair p to main; its own variables are gone
Returned(r, p) ==
    /\ result' = [result EXCEPT ![r] = p]
    /\ firstPair' = IF firstPair.kind = "pair" THEN firstPair ELSE p
    /\ images' = [images EXCEPT ![r] = <<>>]
    /\ text' = [text EXCEPT ![r] = <<>>]
    /\ chunks' = [chunks EXCEPT ![r] = <<>>]
    /\ index' = [index EXCEPT ![r] = <<>>]
    /\ pc' = [pc EXCEPT ![r] = "ready"]

\* an uncaught exception ends the run
Crashed(r, what) ==
    /\ NoLocals(r)
    /\ reported' = [reported EXCEPT ![r] = what]
    /\ pc' = [pc EXCEPT ![r] = "crashed"]

\* st.error(what) and st.stop() end the run
Stopped(r, what) ==
    /\ NoLocals(r)
    /\ reported' = [reported EXCEPT ![r] = what]
    /\ pc' = [pc EXCEPT ![r] = "stopped"]

\* process_pdf: with open(cache_path, "rb") as f: return pickle.load(f)
LoadHit(r) ==
    /\ pc[r] = "load"
    /\ cache.kind = "pair"
    /\ Returned(r, cache)
    /\ did' = [did EXCEPT ![r] = @ \cup {"load", "returned"}]
    /\ UNCHANGED <<files, runs, query, reported, call, corruptSeen>>

\* pickle.load raises on a file that is empty or cut short; nothing
\* catches it
LoadFail(r) ==
    /\ pc[r] = "load"
    /\ cache.kind # "pair"
    /\ Crashed(r, "unpickle_exception")
    /\ did' = [did EXCEPT ![r] = @ \cup {"load"}]
    /\ corruptSeen' = TRUE
    /\ UNCHANGED <<files, runs, call, firstPair>>

\* extract_text_from_pdf: images = convert_from_path(pdf_path, dpi=300)
Rasterize(r) ==
    /\ pc[r] = "raster"
    /\ did' = [did EXCEPT ![r] = @ \cup {"extract"}]
    /\ images' = [images EXCEPT ![r] = PageImages(pdf)]
    /\ pc' = [pc EXCEPT ![r] = "ocr"]
    /\ UNCHANGED <<files, runs, locals, query, reported, call, firstPair,
                   corruptSeen>>

\* convert_from_path raises (unreadable PDF, no poppler): the outer
\* except reports it and st.stop() ends the run
RasterizeFail(r) ==
    /\ pc[r] = "raster"
    /\ did' = [did EXCEPT ![r] = @ \cup {"extract", "raster_exception"}]
    /\ Stopped(r, "pdf_error")
    /\ UNCHANGED <<files, runs, call, firstPair, corruptSeen>>

\* The messages a TesseractError can carry: the missing language data
\* (names ben.traineddata), or another failure whose text may or may not
\* hold the letters 'ben'.
TessErrors == {[kind |-> "tess_lang_missing", ben |-> TRUE],
               [kind |-> "tess_other", ben |-> TRUE],
               [kind |-> "tess_other", ben |-> FALSE]}

\* except pytesseract.TesseractError as e: what st.error shows.
\* app.py tests 'ben' in str(e); app_deploy.py has the one message.
ReportTesseractError(v, e) ==
    IF v = "app" /\ e.ben THEN "lang_missing" ELSE "tesseract_error"

\* full_text after pages 1..n: each page's text followed by "\n\n"
FullText(imgs, n) == SubSeq(imgs, 1, n)

\* for i, image in enumerate(images): text = image_to_string(image);
\* full_text += text + "\n\n"; every page succeeds and
\* extract_text_from_pdf returns full_text
OcrPages(r) ==
    /\ pc[r] = "ocr"
    /\ text' = [text EXCEPT ![r] = FullText(images[r], Len(images[r]))]
    /\ pc' = [pc EXCEPT ![r] = "split"]
    /\ UNCHANGED <<files, runs, images, chunks, index, result, query,
                   reported, history>>

\* what the history keeps of a failure on page i
Failure(kind, i) == IF i > 1 THEN {kind, "pages_before"} ELSE {kind}

\* the failed page is reported and left out, the text of the others returned
OcrFailSkipsPage(r) ==
    /\ pc[r] = "ocr"
    /\ \E i \in 1..Len(images[r]), e \in TessErrors :
          /\ reported' = [reported EXCEPT ![r] = ReportTesseractError(variant, e)]
          /\ did' = [did EXCEPT ![r] = @ \cup Failure(e.kind, i)]
          /\ text' = [text EXCEPT ![r] = FullText(images[r], i - 1)
                            \o SubSeq(images[r], i + 1, Len(images[r]))]
    /\ pc' = [pc EXCEPT ![r] = "split"]
    /\ UNCHANGED <<files, runs, images, chunks, index, result, query, call,
                   firstPair, corruptSeen>>

\* image_to_string raises TesseractError on page i, after pages 1..i-1 went
\* into full_text: st.error and st.stop(); nothing is returned and the
\* frame of extract_text_from_pdf, full_text with it, is gone
OcrFail(r) ==
    /\ pc[r] = "ocr"
    /\ \E i \in 1..Len(images[r]), e \in TessErrors :
          /\ Stopped(r, ReportTesseractError(variant, e))
          /\ did' = [did EXCEPT ![r] = @ \cup Failure(e.kind, i)]
    /\ UNCHANGED <<files, runs, call, firstPair, corruptSeen>>

\* image_to_string raises anything else on page i (no tesseract binary, a
\* bad image): the outer except reports it and st.stop() ends the run
OcrOtherError(r) ==
    /\ pc[r] = "ocr"
    /\ \E i \in 1..Len(images[r]) :
          did' = [did EXCEPT ![r] = @ \cup Failure("ocr_exception", i)]
    /\ Stopped(r, "pdf_error")
    /\ UNCHANGED <<files, runs, call, firstPair, corruptSeen>>

\* the vectors go into the index last chunk first
BuildIndexReversed(embeddings) ==
    [i \in 1..Len(embeddings) |-> embeddings[Len(embeddings) + 1 - i]]

\* index = faiss.IndexFlatL2(dimension); index.add(embeddings)
BuildIndex(embeddings) == IndexAdd(<<>>, embeddings)

\* chunks = text_splitter.split_text(text); embeddings = model.encode(chunks);
\* dimension = embeddings.shape[1]; the index is built.
\* With no chunks the array has no second axis and shape[1] raises.
ChunkAndEmbed(r) ==
    /\ pc[r] = "split"
    /\ did' = [did EXCEPT ![r] = @ \cup {"split", "embed"}]
    /\ IF SplitText(text[r]) = <<>>
       THEN Crashed(r, "index_exception")
       ELSE /\ chunks' = [chunks EXCEPT ![r] = SplitText(text[r])]
            /\ index' = [index EXCEPT ![r] = BuildIndex(Encode(SplitText(text[r])))]
            /\ pc' = [pc EXCEPT ![r] = "open"]
            /\ UNCHANGED <<images, text, result, query, reported>>
    /\ UNCHANGED <<files, runs, call, firstPair, corruptSeen>>

\* the pair is written to a file of its own and moved over the entry when
\* complete: opening leaves the entry as it was
OpenCacheAside(r) ==
    /\ pc[r] = "open"
    /\ cache' = cache
    /\ did' = [did EXCEPT ![r] = @ \cup {"open"}]
    /\ pc' = [pc EXCEPT ![r] = "dump"]
    /\ UNCHANGED <<variant, pdf, runs, images, locals, query, reported,
                   call, firstPair, corruptSeen>>

\* open(cache_path, "wb"): the file exists from here on, and is empty
OpenCache(r) ==
    /\ pc[r] = "open"
    /\ cache' = Invalid
    /\ did' = [did EXCEPT ![r] = @ \cup {"open"}]
    /\ pc' = [pc EXCEPT ![r] = "dump"]
    /\ UNCHANGED <<variant, pdf, runs, images, locals, query, reported,
                   call, firstPair, corruptSeen>>

\* another session holds the file open for writing other bytes
TornBy(r) ==
    \E s \in Sessions \ {r} :
        pc[s] = "dump" /\ <<chunks[s], index[s]>> # <<chunks[r], index[r]>>

\* pickle.dump((chunks, index), f); return chunks, index.
\* Two writers of different bytes may leave a file that does not unpickle.
Dump(r) ==
    /\ pc[r] = "dump"
    /\ \/ cache' = Pickled(chunks[r], index[r])
       \/ TornBy(r) /\ cache' = Invalid
    /\ Returned(r, Pickled(chunks[r], index[r]))
    /\ did' = [did EXCEPT ![r] = @ \cup {"dump", "returned"}]
    /\ UNCHANGED <<variant, pdf, runs, query, reported, call, corruptSeen>>

\* pickle.dump raises (disk full, an index that does not pickle): the
\* file stays as the failed write left it
DumpFail(r) ==
    /\ pc[r] = "dump"
    /\ cache' \in {cache, Invalid}
    /\ Crashed(r, "dump_exception")
    /\ UNCHANGED <<variant, pdf, runs, history>>

\* the script reaches its last line
EndOfScript(r) ==
    /\ NoLocals(r)
    /\ pc' = [pc EXCEPT ![r] = "done"]
    /\ reported' = [reported EXCEPT ![r] = "none"]
    /\ did' = [did EXCEPT ![r] = {}]
    /\ call' = [call EXCEPT ![r] = NoCall]
    /\ UNCHANGED <<files, runs, firstPair, corruptSeen>>

\* question = st.text_input(...); if question and openai_api_key: is false
\* (no question yet, or no key): the footer is drawn
NoQuestion(r) ==
    /\ pc[r] = "ready"
    /\ EndOfScript(r)

\* question_embedding = embedding_model.encode([question]);
\* D, I = index.search(question_embedding, k=3);
\* context = "\n\n".join([chunks[i] for i in I[0]]);
\* a label outside the list raises IndexError
Retrieve(r) ==
    /\ pc[r] = "ready"
    /\ did' = [did EXCEPT ![r] = (@ \cap {"returned"}) \cup {"embed_question", "search"}]
    /\ call' = [call EXCEPT ![r] = NoCall]
    /\ \E q \in 0..MaxVec :
          LET labels == Search(result[r].index, q, TopK)
          IN IF \A n \in 1..TopK : InRange(result[r].chunks, labels[n])
             THEN /\ question_embedding' = [question_embedding EXCEPT ![r] = q]
                  /\ I' = [I EXCEPT ![r] = labels]
                  /\ context' = [context EXCEPT ![r] =
                        [n \in 1..TopK |-> PyItem(result[r].chunks, labels[n])]]
                  /\ pc' = [pc EXCEPT ![r] = "generate"]
                  /\ UNCHANGED <<images, locals, answer, reported>>
             ELSE Crashed(r, "index_exception")
    /\ UNCHANGED <<files, runs, firstPair, corruptSeen>>

\* answer = query_openai(prompt): the stripped text of the reply
GenerateOk(r) ==
    /\ pc[r] = "generate"
    /\ answer' = [answer EXCEPT ![r] = "text"]
    /\ did' = [did EXCEPT ![r] = @ \cup {"generate"}]
    /\ pc' = [pc EXCEPT ![r] = "answered"]
    /\ UNCHANGED <<files, runs, images, locals, question_embedding, I,
                   context, reported, call, firstPair, corruptSeen>>

\* the exception leaves query_openai uncaught
GenerateFailRaises(r) ==
    /\ pc[r] = "generate"
    /\ did' = [did EXCEPT ![r] = @ \cup {"generate", "openai_exception"}]
    /\ Crashed(r, "openai_error")
    /\ UNCHANGED <<files, runs, call, firstPair, corruptSeen>>

\* query_openai: except Exception as e: st.error(...); return None
GenerateFail(r) ==
    /\ pc[r] = "generate"
    /\ answer' = [answer EXCEPT ![r] = "None"]
    /\ reported' = [reported EXCEPT ![r] = "openai_error"]
    /\ did' = [did EXCEPT ![r] = @ \cup {"generate", "openai_exception"}]
    /\ pc' = [pc EXCEPT ![r] = "answered"]
    /\ UNCHANGED <<files, runs, images, locals, question_embedding, I,
                   context, call, firstPair, corruptSeen>>

\* if answer: the answer and the context are shown; then the footer
ShowAnswer(r) ==
    /\ pc[r] = "answered"
    /\ EndOfScript(r)

Next ==
    \E r \in Sessions :
        \/ Start(r)
        \/ CheckCache(r)
        \/ LoadHit(r)
        \/ LoadFail(r)
        \/ Rasterize(r)
        \/ RasterizeFail(r)
        \/ OcrPages(r)
        \/ OcrFail(r)
        \/ OcrOtherError(r)
        \/ ChunkAndEmbed(r)
        \/ OpenCache(r)
        \/ Dump(r)
        \/ DumpFail(r)
        \/ NoQuestion(r)
        \/ Retrieve(r)
        \/ GenerateOk(r)
        \/ GenerateFail(r)
        \/ ShowAnswer(r)

Spec == Init /\ [][Next]_vars

\* ------------------------------------------------------------- claims

\* the run's call of process_pdf is over: it returned, or the run ended in it
CallOver(r) == pc[r] \in {"ready", "crashed", "stopped"}

\* the document a pair was computed from
SourceDoc(p) == p.chunks[1][1][1]

\* C1: once one call of process_pdf has completed, every call begun later
\* returns the pair the first one returned, and runs neither extraction nor
\* the embedding of chunks.
C1_CacheIdempotence ==
    \A r \in Sessions :
        (call[r].late /\ CallOver(r)) =>
            /\ pc[r] = "ready"
            /\ result[r] = firstPair
            /\ did[r] \cap {"extract", "embed"} = {}

QuerySteps == {"embed_question", "search", "generate"}

\* C2: a run takes a query step (question embedding, index search, the
\* completion call) only after its process_pdf returned a pair; a run that
\* found no PDF or whose indexing failed takes none.
C2_NoQueryBeforeReady ==
    \A r \in Sessions :
        /\ did[r] \cap QuerySteps # {} => "returned" \in did[r]
        /\ pc[r] \in {"generate", "answered"} =>
              result[r].kind = "pair" /\ result[r].chunks # <<>>
        /\ (pc[r] = "stopped" \/ reported[r] = "no_pdf") =>
              did[r] \cap QuerySteps = {} /\ result[r].kind = "none"

\* one run is showing an answer while another stopped for want of a PDF
C2_Witness ==
    \E r, s \in Sessions :
        /\ pc[r] = "answered" /\ result[r].kind = "pair"
        /\ pc[s] = "stopped" /\ reported[s] = "no_pdf"

FailsNow(r) == "openai_exception" \notin did[r] /\ "openai_exception" \in did'[r]

\* C3: the step in which the completion call fails yields the answer None
\* without ending the run by an exception, and leaves the run's chunks and
\* index and the cache file as they were; the run then ends normally, the
\* cache file still untouched.
C3_FailedGenerationKeepsIndex ==
    [][\A r \in Sessions :
          /\ FailsNow(r) =>
                /\ answer'[r] = "None"
                /\ pc'[r] = "answered"
                /\ result'[r] = result[r] /\ result[r].kind = "pair"
                /\ cache' = cache
          /\ (pc[r] = "answered" /\ pc'[r] # "answered") =>
                pc'[r] = "done" /\ cache' = cache]_vars

\* a failed generation beside an intact cache entry equal to the run's pair
C3_Witness ==
    \E r \in Sessions :
        /\ answer[r] = "None" /\ pc[r] = "answered"
        /\ reported[r] = "openai_error"
        /\ cache = result[r]

ExtractionErrors ==
    {"tess_lang_missing", "tess_other", "ocr_exception", "raster_exception"}

ExtractionFailed(r) == did[r] \cap ExtractionErrors # {}

\* C4: a run whose extraction failed (rasterizing, or OCR on any page) has
\* stopped with no text at all, has not gone on to chunking or embedding
\* and never opened the cache file; the failing step leaves the cache file
\* as it was, so an absent entry is still absent.
C4_ExtractionAllOrNothing ==
    /\ [](\A r \in Sessions :
            ExtractionFailed(r) =>
                /\ pc[r] = "stopped"
                /\ text[r] = <<>> /\ chunks[r] = <<>> /\ index[r] = <<>>
                /\ result[r].kind = "none"
                /\ did[r] \cap {"split", "embed", "open", "dump", "returned"} = {})
    /\ [][\A r \in Sessions :
            (~ExtractionFailed(r) /\ ExtractionFailed(r)') => cache' = cache]_vars

\* OCR failed after earlier pages had been read, and there is no cache file
C4_Witness ==
    \E r \in Sessions :
        /\ ExtractionFailed(r) /\ "pages_before" \in did[r]
        /\ pc[r] = "stopped"
        /\ cache.kind = "absent"

\* C5: in app.py and in app_deploy.py alike, a run whose OCR failed for
\* missing language data has reported "lang_missing", the outcome of its
\* own that the message of any other Tesseract failure does not give.
C5_LanguageDataMissingDistinct ==
    \A r \in Sessions :
        "tess_lang_missing" \in did[r] =>
            /\ reported[r] = "lang_missing"
            /\ reported[r] # ReportTesseractError(variant, [kind |-> "tess_other", ben |-> FALSE])

\* C6: once a document has been processed, a call of process_pdf begun
\* later with other content under the same file name returns the pair of
\* the old content and runs no extraction.
C6_StaleAfterReplace ==
    \A r \in Sessions :
        (call[r].late /\ CallOver(r) /\ call[r].doc # SourceDoc(firstPair)) =>
            /\ pc[r] = "ready"
            /\ result[r] = firstPair
            /\ "extract" \notin did[r]

\* C7: nothing guards the check-then-write: a run that found the entry
\* absent never waits for or reads another run's entry, and when its
\* process_pdf has returned it has run extraction and embedding and has
\* written the file itself, whatever the other session did.
C7_NoComputeOnceGuard ==
    \A r \in Sessions :
        "miss" \in did[r] =>
            /\ pc[r] # "load" /\ "load" \notin did[r]
            /\ "returned" \in did[r] =>
                  {"extract", "embed", "open", "dump"} \subseteq did[r]

\* both sessions found the entry absent, and both computed and wrote it
C7_Witness ==
    \A r \in Sessions :
        {"miss", "extract", "embed", "open", "dump", "returned"} \subseteq did[r]

\* C8: the search asks for no more neighbours than the index holds, every
\* label used for the context is a chunk position, and no chunk is in the
\* context twice.
C8_SearchWithinIndex ==
    \A r \in Sessions :
        pc[r] \in {"generate", "answered"} =>
            /\ TopK <= Len(result[r].index)
            /\ \A n \in 1..TopK : I[r][n] \in 0..(Len(result[r].chunks) - 1)
            /\ \A m, n \in 1..TopK : m # n => context[r][m] # context[r][n]

\* vector i of the index is the embedding of chunk i
Aligned(p) ==
    /\ Len(p.chunks) = Len(p.index)
    /\ \A i \in 1..Len(p.chunks) : p.index[i] = EmbedText(p.chunks[i])

\* C9: every pair process_pdf returns, computed or loaded, and every pair
\* in the cache file has as many vectors as chunks, vector i being the
\* embedding of chunk i.
C9_IndexCorrespondence ==
    /\ cache.kind = "pair" => Aligned(cache)
    /\ \A r \in Sessions :
          result[r].kind = "pair" => Aligned(result[r]) /\ Len(result[r].chunks) >= 1

\* one session computed a pair of several chunks, the other loaded it
C9_Witness ==
    \E r, s \in Sessions :
        /\ "dump" \in did[r] /\ pc[r] = "ready"
        /\ "load" \in did[s] /\ pc[s] = "ready"
        /\ result[s] = result[r]
        /\ Len(result[r].chunks) >= 2

\* C10: once a call of process_pdf has failed to unpickle the cache file,
\* every call begun later fails the same way, running no extraction or
\* embedding and writing nothing.
C10_CorruptStaysFatal ==
    \A r \in Sessions :
        (call[r].afterCorrupt /\ CallOver(r)) =>
            /\ pc[r] = "crashed"
            /\ reported[r] = "unpickle_exception"
            /\ did[r] \cap {"extract", "embed", "open", "dump"} = {}

\* C11: the cache file is written in place: the step that opens it for
\* writing leaves a file that exists and does not unpickle, whatever it
\* held; a run whose pickle.load fails has read an existing, unfilled file
\* and leaves it so; a writer that fails after opening leaves a file that
\* exists, and an unfilled one stays unfilled.
C11_WriteInPlace ==
    [][\A r \in Sessions :
          /\ (pc[r] = "open" /\ pc'[r] = "dump") => cache' = Invalid
          /\ (pc[r] = "load" /\ pc'[r] = "crashed") =>
                cache.kind = "invalid" /\ cache' = cache
          /\ (pc[r] = "dump" /\ pc'[r] = "crashed") =>
                /\ cache'.kind # "absent"
                /\ cache.kind = "invalid" => cache'.kind = "invalid"]_vars

\* each session is in its first run: one has opened the file and not yet
\* filled it, the other found it existing and failed to unpickle it
C11_Witness ==
    \E r, s \in Sessions :
        /\ runs = 2
        /\ pc[r] = "dump" /\ "open" \in did[r]
        /\ pc[s] = "crashed" /\ reported[s] = "unpickle_exception"
        /\ "miss" \notin did[s]
        /\ cache.kind = "invalid"

=============================================================================
